---- MODULE Spec2Model ----
(***************************************************************************)
(* DiseaseMatchingService of mednex-backend/services/disease_matcher.py:   *)
(* the dataset loader, the confidence scorer and predict_diseases; and the *)
(* POST /predict handler of mednex-backend/routers/prediction.py.          *)
(*                                                                         *)
(* Values.  A Python str is a TLA+ string.  A cell of the pandas table is  *)
(* a record [t, v]: t = "str" (v the text), t = "nan" (an empty CSV cell), *)
(* t = "num" (a cell of a column pandas parsed as numeric; v its digits).  *)
(* A confidence is kept in hundredths (60.0 is 6000, 23.33 is 2333): the   *)
(* code rounds every confidence to two decimals, so nothing is lost.       *)
(***************************************************************************)
EXTENDS Integers, Sequences, FiniteSets, TLC

VARIABLES
    dataset_file,   \* what is at self.dataset_path when the service is built
    disease_data,   \* self.disease_data
    symptoms,       \* the argument of the latest predict_diseases call
    predictions,    \* the local list `predictions` when that call left the try body
    workload,       \* which population of files and input lists this run draws from
    path,           \* "none" | "ranked" | "low_confidence" | "exception"
    status,         \* "idle" | "returned" | "raised"
    result,         \* the dict the latest call returned
    calls,          \* how many calls this service has answered
    first_call,     \* the argument and the result of its first call
    assessed,       \* the latest _assess_severity call: its argument and its result
    request,        \* the body of the latest POST /predict
    response,       \* the answer to it: status_code, and the diseases of a 200
    tasks           \* the predict_diseases calls in flight, each with its locals

vars ==
    <<dataset_file, disease_data, symptoms, predictions, workload, path, status,
      result, calls, first_call, assessed, request, response, tasks>>

-----------------------------------------------------------------------------
(* Bounds of the model.                                                    *)

MaxRows == 2          \* rows of a dataset file drawn in Init
MaxSymptoms == 3      \* length of an input list over the wide pool of strings
MaxLongSymptoms == 5  \* length of an input list over the narrow pool
MaxCalls == 2         \* calls answered by a service of the workload "session"
MaxTasks == 2         \* predict_diseases calls in flight at once

-----------------------------------------------------------------------------
(* Python values.                                                          *)

None == [t |-> "none", v |-> ""]
NaN == [t |-> "nan", v |-> ""]
Str(s) == [t |-> "str", v |-> s]
Num(s) == [t |-> "num", v |-> s]

UpperCase == "ABCDEFGHIJKLMNOPQRSTUVWXYZ"
LowerCase == "abcdefghijklmnopqrstuvwxyz"
Whitespace == {" ", "\t"}

\* str.lower() on one character: the lower-case letter of each upper-case one
LowerOf ==
    [c \in {SubSeq(UpperCase, i, i) : i \in 1..Len(UpperCase)} |->
        LET i == CHOOSE j \in 1..Len(UpperCase) : SubSeq(UpperCase, j, j) = c
        IN  SubSeq(LowerCase, i, i)]

LowerChar(c) == IF c \in DOMAIN LowerOf THEN LowerOf[c] ELSE c

RECURSIVE lower(_)
lower(s) == IF Len(s) = 0 THEN s ELSE LowerChar(SubSeq(s, 1, 1)) \o lower(Tail(s))

RECURSIVE lstrip(_)
lstrip(s) == IF Len(s) > 0 /\ SubSeq(s, 1, 1) \in Whitespace THEN lstrip(Tail(s)) ELSE s

RECURSIVE rstrip(_)
rstrip(s) ==
    IF Len(s) > 0 /\ SubSeq(s, Len(s), Len(s)) \in Whitespace
    THEN rstrip(SubSeq(s, 1, Len(s) - 1))
    ELSE s

strip(s) == rstrip(lstrip(s))

\* Python's `a in b` on two strings
IsIn(a, b) ==
    \/ Len(a) = 0
    \/ \E i \in 1..(Len(b) - Len(a) + 1) : SubSeq(b, i, i + Len(a) - 1) = a

startswith(s, prefix) ==
    Len(s) >= Len(prefix) /\ SubSeq(s, 1, Len(prefix)) = prefix

\* seq[:k]
Prefix(seq, k) == SubSeq(seq, 1, IF Len(seq) < k THEN Len(seq) ELSE k)

RECURSIVE join(_, _)
join(sep, seq) ==
    IF Len(seq) = 0 THEN ""
    ELSE IF Len(seq) = 1 THEN seq[1]
    ELSE seq[1] \o sep \o join(sep, Tail(seq))

\* round(x, 2) of x = a / b, in hundredths.  For b < 16 no a / b below lies
\* half-way between two hundredths, so half-up and Python's rounding agree.
RoundDiv(a, b) == (2 * a + b) \div (2 * b)

-----------------------------------------------------------------------------
(* The table: a pandas DataFrame is [columns, rows], columns the header    *)
(* names in file order and each row the cells in the same order.           *)

DataFrame(columns, rows) == [columns |-> columns, rows |-> rows]

FallbackColumns ==
    <<"Disease", "Symptom_1", "Symptom_2", "Symptom_3", "Description", "Treatment">>

FallbackRows ==
    << << Str("Common Cold"),
          Str("runny nose"),
          Str("cough"),
          Str("sore throat"),
          Str("Viral infection affecting nose and throat"),
          Str("Rest, fluids, over-the-counter medications") >>,
       << Str("Influenza"),
          Str("fever"),
          Str("body aches"),
          Str("fatigue"),
          Str("Respiratory illness caused by influenza viruses"),
          Str("Rest, fluids, antiviral medications if prescribed") >>,
       << Str("Migraine"),
          Str("headache"),
          Str("sensitivity to light"),
          Str("nausea"),
          Str("Severe headache often with nausea and light sensitivity"),
          Str("Pain relievers, rest in dark room, avoid triggers") >>,
       << Str("Food Poisoning"),
          Str("nausea"),
          Str("vomiting"),
          Str("diarrhea"),
          Str("Illness caused by consuming contaminated food"),
          Str("Hydration, bland diet, medical attention if severe") >>,
       << Str("Allergic Reaction"),
          Str("rash"),
          Str("itching"),
          Str("swelling"),
          Str("Immune system reaction to allergens"),
          Str("Avoid allergens, antihistamines, medical evaluation") >>,
       << Str("Anxiety"),
          Str("worry"),
          Str("restlessness"),
          Str("rapid heartbeat"),
          Str("Mental health condition characterized by excessive worry"),
          Str("Therapy, relaxation techniques, medical consultation") >>,
       << Str("Hypertension"),
          Str("high blood pressure"),
          Str("headache"),
          Str("dizziness"),
          Str("Condition where blood pressure is consistently high"),
          Str("Lifestyle changes, medication as prescribed") >>,
       << Str("Diabetes"),
          Str("frequent urination"),
          Str("excessive thirst"),
          Str("blurred vision"),
          Str("Metabolic disorder affecting blood sugar levels"),
          Str("Diet management, exercise, medication as prescribed") >>,
       << Str("Asthma"),
          Str("shortness of breath"),
          Str("wheezing"),
          Str("cough"),
          Str("Respiratory condition causing breathing difficulties"),
          Str("Inhalers, avoid triggers, medical management") >>,
       << Str("Gastritis"),
          Str("stomach pain"),
          Str("bloating"),
          Str("acid reflux"),
          Str("Inflammation of stomach lining"),
          Str("Dietary changes, medications, avoid irritants") >>,
       << Str("Insomnia"),
          Str("difficulty sleeping"),
          Str("fatigue"),
          Str("irritability"),
          Str("Sleep disorder preventing adequate rest"),
          Str("Sleep hygiene, stress management, medical evaluation") >>,
       << Str("Depression"),
          Str("sadness"),
          Str("loss of interest"),
          Str("fatigue"),
          Str("Mental health condition affecting mood and behavior"),
          Str("Therapy, lifestyle changes, medical consultation") >> >>

\* _create_fallback_dataset: the embedded seed table
_create_fallback_dataset == DataFrame(FallbackColumns, FallbackRows)

\* The dataset path at construction: no file, a file read_csv fails on, or a
\* file read_csv parses to `table`.
NoFile == [exists |-> FALSE, parses |-> FALSE, table |-> DataFrame(<<>>, <<>>)]
BadFile == [exists |-> TRUE, parses |-> FALSE, table |-> DataFrame(<<>>, <<>>)]
CsvFile(table) == [exists |-> TRUE, parses |-> TRUE, table |-> table]

\* a loader without the fallback: whatever read_csv left
LoadWithoutFallback(file) == file.table

\* _load_dataset: the value it leaves in self.disease_data
_load_dataset(file) ==
    IF file.exists
    THEN IF file.parses THEN file.table ELSE _create_fallback_dataset
    ELSE _create_fallback_dataset

-----------------------------------------------------------------------------
(* Scoring.                                                                *)

\* The inner loop of _calculate_confidence for one user symptom: the kind of
\* the first disease symptom at which the loop breaks.
RECURSIVE FirstMatch(_, _)
FirstMatch(user_symptom, disease_symptoms) ==
    IF Len(disease_symptoms) = 0 THEN "none"
    ELSE LET disease_symptom == Head(disease_symptoms)
         IN  IF user_symptom = disease_symptom THEN "exact"
             ELSE IF \/ IsIn(user_symptom, disease_symptom)
                     \/ IsIn(disease_symptom, user_symptom)
                  THEN "partial"
                  ELSE FirstMatch(user_symptom, Tail(disease_symptoms))

\* the matches of `kind` counted up to the first user symptom without a match
RECURSIVE CountLeadingMatches(_, _, _)
CountLeadingMatches(user_symptoms, disease_symptoms, kind) ==
    IF Len(user_symptoms) = 0 THEN 0
    ELSE IF FirstMatch(Head(user_symptoms), disease_symptoms) = "none" THEN 0
    ELSE (IF FirstMatch(Head(user_symptoms), disease_symptoms) = kind THEN 1 ELSE 0)
         + CountLeadingMatches(Tail(user_symptoms), disease_symptoms, kind)

\* The outer loop: how many user symptoms broke on a match of `kind`.
RECURSIVE CountMatches(_, _, _)
CountMatches(user_symptoms, disease_symptoms, kind) ==
    IF Len(user_symptoms) = 0 THEN 0
    ELSE (IF FirstMatch(Head(user_symptoms), disease_symptoms) = kind THEN 1 ELSE 0)
         + CountMatches(Tail(user_symptoms), disease_symptoms, kind)

\* a partial match counted like an exact one
TotalMatchesUnweighted(exact_matches, partial_matches) ==
    exact_matches * 10 + partial_matches * 10

\* exact_matches + partial_matches * 0.7, in tenths
TotalMatches(exact_matches, partial_matches) == exact_matches * 10 + partial_matches * 7

\* the confidence without the division by len(user_symptoms) and the cap
ConfidenceNotNormalized(total_matches, n) == total_matches * 1000

\* round(min(total_matches / len(user_symptoms) * 100, 100), 2), in hundredths
Confidence(total_matches, n) ==
    IF total_matches * 1000 > 10000 * n THEN 10000
    ELSE RoundDiv(total_matches * 1000, n)

_calculate_confidence(user_symptoms, disease_symptoms) ==
    IF Len(user_symptoms) = 0 \/ Len(disease_symptoms) = 0 THEN 0
    ELSE LET exact_matches == CountMatches(user_symptoms, disease_symptoms, "exact")
             partial_matches == CountMatches(user_symptoms, disease_symptoms, "partial")
         IN  Confidence(TotalMatches(exact_matches, partial_matches), Len(user_symptoms))

\* _get_matching_symptoms appending the disease's symptom, not the user's
RECURSIVE MatchingDiseaseSymptoms(_, _)
MatchingDiseaseSymptoms(user_symptoms, disease_symptoms) ==
    IF Len(user_symptoms) = 0 THEN <<>>
    ELSE LET user_symptom == Head(user_symptoms)
             hits == {i \in 1..Len(disease_symptoms) :
                        \/ user_symptom = disease_symptoms[i]
                        \/ IsIn(user_symptom, disease_symptoms[i])
                        \/ IsIn(disease_symptoms[i], user_symptom)}
         IN  (IF hits # {}
              THEN <<disease_symptoms[CHOOSE i \in hits : \A j \in hits : i <= j]>>
              ELSE <<>>)
             \o MatchingDiseaseSymptoms(Tail(user_symptoms), disease_symptoms)

\* the user symptoms that equal a symptom of the disease, substring matches
\* left out
RECURSIVE ExactMatchingSymptoms(_, _)
ExactMatchingSymptoms(user_symptoms, disease_symptoms) ==
    IF Len(user_symptoms) = 0 THEN <<>>
    ELSE (IF \E i \in 1..Len(disease_symptoms) : Head(user_symptoms) = disease_symptoms[i]
          THEN <<Head(user_symptoms)>> ELSE <<>>)
         \o ExactMatchingSymptoms(Tail(user_symptoms), disease_symptoms)

RECURSIVE _get_matching_symptoms(_, _)
_get_matching_symptoms(user_symptoms, disease_symptoms) ==
    IF Len(user_symptoms) = 0 THEN <<>>
    ELSE LET user_symptom == Head(user_symptoms)
             hit == \E i \in 1..Len(disease_symptoms) :
                        \/ user_symptom = disease_symptoms[i]
                        \/ IsIn(user_symptom, disease_symptoms[i])
                        \/ IsIn(disease_symptoms[i], user_symptom)
         IN  (IF hit THEN <<user_symptom>> ELSE <<>>)
             \o _get_matching_symptoms(Tail(user_symptoms), disease_symptoms)

\* High only above 70
SeverityAbove70(confidence) ==
    IF confidence > 7000 THEN "High"
    ELSE IF confidence >= 4000 THEN "Medium"
    ELSE "Low"

\* _assess_severity: the thresholds 70 and 40
_assess_severity(confidence) ==
    IF confidence >= 7000 THEN "High"
    ELSE IF confidence >= 4000 THEN "Medium"
    ELSE "Low"

\* the pair with symptoms[:3] in both entries
GeneralRecommendationsSameCut(syms) ==
    << [name |-> Str("General Health Consultation"),
        confidence |-> 6000,
        description |-> Str("Based on your symptoms (" \o join(", ", Prefix(syms, 3))
                            \o "), we recommend consulting a healthcare professional for proper evaluation."),
        treatment |-> Str("Schedule an appointment with your doctor or visit a clinic for professional medical advice."),
        severity |-> "Medium",
        matching_symptoms |-> Prefix(syms, 3)],
       [name |-> Str("Symptomatic Care"),
        confidence |-> 4000,
        description |-> Str("General symptomatic care may help while you seek professional medical advice."),
        treatment |-> Str("Rest, stay hydrated, monitor symptoms, and seek medical attention if symptoms worsen."),
        severity |-> "Low",
        matching_symptoms |-> Prefix(syms, 3)] >>

_get_general_recommendations(syms) ==
    << [name |-> Str("General Health Consultation"),
        confidence |-> 6000,
        description |-> Str("Based on your symptoms (" \o join(", ", Prefix(syms, 3))
                            \o "), we recommend consulting a healthcare professional for proper evaluation."),
        treatment |-> Str("Schedule an appointment with your doctor or visit a clinic for professional medical advice."),
        severity |-> "Medium",
        matching_symptoms |-> Prefix(syms, 3)],
       [name |-> Str("Symptomatic Care"),
        confidence |-> 4000,
        description |-> Str("General symptomatic care may help while you seek professional medical advice."),
        treatment |-> Str("Rest, stay hydrated, monitor symptoms, and seek medical attention if symptoms worsen."),
        severity |-> "Low",
        matching_symptoms |-> Prefix(syms, 2)] >>

-----------------------------------------------------------------------------
(* predict_diseases.  A step of the try body that raises is reported as    *)
(* exc = TRUE; the value computed so far travels with it.                  *)

\* position of a column in the header, 0 when the table has no such column
ColumnIndex(columns, name) ==
    IF \E i \in 1..Len(columns) : columns[i] = name
    THEN CHOOSE i \in 1..Len(columns) : columns[i] = name
    ELSE 0

\* disease_row.get(name, default)
RowGet(columns, disease_row, name, default) ==
    IF ColumnIndex(columns, name) = 0 THEN default
    ELSE disease_row[ColumnIndex(columns, name)]

\* pd.notna(cell)
notna(cell) == cell.t # "nan"

\* The loop over disease_row.index from column i on: the symptoms appended to
\* disease_symptoms.  cell.lower() raises AttributeError on a cell that is
\* neither NaN nor a str.
RECURSIVE DiseaseSymptoms(_, _, _)
DiseaseSymptoms(columns, disease_row, i) ==
    IF i > Len(columns) THEN [exc |-> FALSE, list |-> <<>>]
    ELSE IF startswith(columns[i], "Symptom_") /\ notna(disease_row[i])
    THEN IF disease_row[i].t # "str"
         THEN [exc |-> TRUE, list |-> <<>>]
         ELSE LET rest == DiseaseSymptoms(columns, disease_row, i + 1)
              IN  [exc |-> rest.exc,
                   list |-> <<strip(lower(disease_row[i].v))>> \o rest.list]
    ELSE DiseaseSymptoms(columns, disease_row, i + 1)

\* every scored row is appended
IsCandidateAlways(confidence) == TRUE

\* `if confidence > 0`: the row is appended to predictions
IsCandidate(confidence) == confidence > 0

\* One iteration of the loop over iterrows(): exc when the row raises
\* (KeyError on disease_row['Disease'], AttributeError on a cell), keep when
\* the row is appended to predictions, entry the dict appended.
ScoreRow(columns, disease_row, clean_symptoms) ==
    LET syms == DiseaseSymptoms(columns, disease_row, 1)
        confidence == _calculate_confidence(clean_symptoms, syms.list)
    IN  IF ColumnIndex(columns, "Disease") = 0 \/ syms.exc
        THEN [exc |-> TRUE, keep |-> FALSE, entry |-> None]
        ELSE [exc |-> FALSE,
              keep |-> IsCandidate(confidence),
              entry |->
                [name |-> disease_row[ColumnIndex(columns, "Disease")],
                 confidence |-> confidence,
                 description |-> RowGet(columns, disease_row, "Description",
                                        Str("No description available")),
                 treatment |-> RowGet(columns, disease_row, "Treatment",
                                      Str("Consult healthcare professional")),
                 severity |-> _assess_severity(confidence),
                 matching_symptoms |-> _get_matching_symptoms(clean_symptoms, syms.list)]]

\* the loop skipping a row whose name is already among the predictions
RECURSIVE ScoreRowsMergingNames(_, _, _, _)
ScoreRowsMergingNames(data, clean_symptoms, i, acc) ==
    IF i > Len(data.rows) THEN [exc |-> FALSE, predictions |-> acc]
    ELSE LET r == ScoreRow(data.columns, data.rows[i], clean_symptoms)
         IN  IF r.exc THEN [exc |-> TRUE, predictions |-> acc]
             ELSE ScoreRowsMergingNames(data, clean_symptoms, i + 1,
                    IF r.keep /\ \A k \in 1..Len(acc) : acc[k].name # r.entry.name
                    THEN Append(acc, r.entry) ELSE acc)

\* The loop over iterrows() from row i on, `acc` the predictions so far.
RECURSIVE ScoreRows(_, _, _, _)
ScoreRows(data, clean_symptoms, i, acc) ==
    IF i > Len(data.rows) THEN [exc |-> FALSE, predictions |-> acc]
    ELSE LET r == ScoreRow(data.columns, data.rows[i], clean_symptoms)
         IN  IF r.exc THEN [exc |-> TRUE, predictions |-> acc]
             ELSE ScoreRows(data, clean_symptoms, i + 1,
                            IF r.keep THEN Append(acc, r.entry) ELSE acc)

\* [s.lower().strip() for s in symptoms]
RECURSIVE CleanSymptoms(_)
CleanSymptoms(syms) ==
    IF Len(syms) = 0 THEN <<>>
    ELSE <<strip(lower(Head(syms)))>> \o CleanSymptoms(Tail(syms))

\* an entry placed in front of the entries of the same confidence
RECURSIVE InsertBeforeTies(_, _)
InsertBeforeTies(sorted, x) ==
    IF Len(sorted) = 0 THEN <<x>>
    ELSE IF Head(sorted).confidence > x.confidence
    THEN <<Head(sorted)>> \o InsertBeforeTies(Tail(sorted), x)
    ELSE <<x>> \o sorted

\* list.sort(key=confidence, reverse=True): a stable sort, so an entry goes
\* behind every entry of the same or a higher confidence already placed.
RECURSIVE InsertByConfidence(_, _)
InsertByConfidence(sorted, x) ==
    IF Len(sorted) = 0 THEN <<x>>
    ELSE IF Head(sorted).confidence >= x.confidence
    THEN <<Head(sorted)>> \o InsertByConfidence(Tail(sorted), x)
    ELSE <<x>> \o sorted

RECURSIVE SortByConfidence(_, _)
SortByConfidence(unsorted, sorted) ==
    IF Len(unsorted) = 0 THEN sorted
    ELSE SortByConfidence(Tail(unsorted), InsertByConfidence(sorted, Head(unsorted)))

\* the predictions left in the order they were scored
SortedAsScored(preds) == preds

\* predictions.sort(key=lambda x: x['confidence'], reverse=True)
Sorted(preds) == SortByConfidence(preds, <<>>)

\* the last 5 of the ranked list
TopPredictionsFromEnd(sorted) ==
    IF Len(sorted) <= 5 THEN sorted ELSE SubSeq(sorted, Len(sorted) - 4, Len(sorted))

\* the ranked list without the cut to 5
TopPredictionsUncut(sorted) == sorted

\* predictions[:5]
TopPredictions(sorted) == Prefix(sorted, 5)

\* the test with `<= 20`
NoGoodMatchesUpTo20(top_predictions) ==
    Len(top_predictions) = 0 \/ top_predictions[1].confidence <= 2000

\* the test without `not top_predictions`
NoGoodMatchesLowTopOnly(top_predictions) ==
    Len(top_predictions) > 0 /\ top_predictions[1].confidence < 2000

\* `not top_predictions or top_predictions[0]['confidence'] < 20`
NoGoodMatches(top_predictions) ==
    Len(top_predictions) = 0 \/ top_predictions[1].confidence < 2000

\* a predictions list kept from call to call
KeptPredictions(prior) == prior

\* `predictions = []`: the list a call starts from, whatever list `prior` the
\* call before it ended with.
FreshPredictions(prior) == <<>>

\* The try body: exc when it raised, else the dict it returns.
TryBody(data, syms, prior) ==
    IF data = None
    THEN [exc |-> TRUE, predictions |-> <<>>, path |-> "exception", diseases |-> <<>>]
    ELSE LET clean_symptoms == CleanSymptoms(syms)
             scored == ScoreRows(data, clean_symptoms, 1, FreshPredictions(prior))
             top_predictions == TopPredictions(Sorted(scored.predictions))
         IN  IF scored.exc
             THEN [exc |-> TRUE, predictions |-> scored.predictions,
                   path |-> "exception", diseases |-> <<>>]
             ELSE IF NoGoodMatches(top_predictions)
             THEN [exc |-> FALSE, predictions |-> scored.predictions,
                   path |-> "low_confidence",
                   diseases |-> _get_general_recommendations(clean_symptoms)]
             ELSE [exc |-> FALSE, predictions |-> scored.predictions,
                   path |-> "ranked", diseases |-> top_predictions]

\* a handler that returns the candidates scored before the exception, when
\* there are any
ExceptHandlerKeepsScored(body, syms) ==
    [status |-> "returned", path |-> "exception", predictions |-> body.predictions,
     diseases |-> IF Len(body.predictions) > 0
                  THEN TopPredictions(Sorted(body.predictions))
                  ELSE _get_general_recommendations(syms)]

\* no handler: the exception leaves predict_diseases
Reraise(body, syms) ==
    [status |-> "raised", path |-> "exception", predictions |-> body.predictions,
     diseases |-> <<>>]

\* The except handler: the dict returned after the try body raised.
ExceptHandler(body, syms) ==
    [status |-> "returned", path |-> "exception", predictions |-> body.predictions,
     diseases |-> _get_general_recommendations(syms)]

\* predict_diseases(symptoms) on a service whose table is `data`, after a
\* call that ended with the predictions `prior`: how the call ended (status),
\* the return path, the local predictions and the 'diseases' of the dict.  'processing_time', a wall-clock
\* difference, is left out: no two calls need agree on it.
predict_diseases(data, syms, prior) ==
    LET body == TryBody(data, syms, prior)
    IN  IF body.exc THEN ExceptHandler(body, syms)
        ELSE [status |-> "returned", path |-> body.path,
              predictions |-> body.predictions, diseases |-> body.diseases]

-----------------------------------------------------------------------------
(* The files and input lists the model draws from.  Eight workloads keep   *)
(* the product of tables and inputs small: each widens one dimension.  A   *)
(* service of the workload "session" answers up to MaxCalls calls; a       *)
(* service of another workload answers one.                                *)

\* every sequence over S of a length in lens
SeqsOf(S, lens) == UNION {[1..n -> S] : n \in lens}

Header == <<"Disease", "Symptom_1", "Symptom_2", "Description", "Treatment">>
HeaderNoDisease == <<"Symptom_1", "Symptom_2", "Description", "Treatment">>
DiseaseNames == <<"Flu", "Cold", "Mumps", "Gout">>

\* row i of a file with the header Header, its symptom cells c1 and c2
FileRow(i, c1, c2) ==
    <<Str(DiseaseNames[i]), c1, c2, Str("about " \o DiseaseNames[i]), Str("rest")>>

\* read_csv types a column as a whole: a numeric cell sits in a column whose
\* other cells are numeric or empty.
WellTyped(cells) ==
    \A i \in 1..2 :
        (\E r \in 1..Len(cells) : cells[r][i].t = "num")
            => (\A r \in 1..Len(cells) : cells[r][i].t # "str")

TableOf(cells) ==
    DataFrame(Header, [i \in 1..Len(cells) |-> FileRow(i, cells[i][1], cells[i][2])])

TableNoDisease(cells) ==
    DataFrame(HeaderNoDisease,
              [i \in 1..Len(cells) |-> Tail(FileRow(i, cells[i][1], cells[i][2]))])

\* workload "tables": every well-typed file of up to MaxRows rows, with or
\* without the Disease column; few inputs
TablesCells ==
    {Str("a"), Str("AB "), NaN} \X {Str("a"), Str(" "), NaN, Num("5")}
TablesFiles ==
    LET cs == {c \in SeqsOf(TablesCells, 0..MaxRows) : WellTyped(c)}
    IN  {CsvFile(TableOf(c)) : c \in cs} \cup {CsvFile(TableNoDisease(c)) : c \in cs}
TablesInputs == SeqsOf({"a", " Ab", "c"}, {0, 1, 2})

\* workload "wide": small files; every input of up to MaxSymptoms symptoms
WideCells == {Str("ab"), Str("C "), Str("a")} \X {Str("a"), Str(" "), NaN}
WideFiles == {CsvFile(TableOf(c)) : c \in SeqsOf(WideCells, {1, 2})}
WideInputs == SeqsOf({"a", " A", "ab", "c", " "}, 0..MaxSymptoms)

\* workload "long": one-symptom diseases; inputs of up to MaxLongSymptoms
LongFiles ==
    {CsvFile(TableOf(c)) :
        c \in {<< <<Str("a"), NaN>> >>, << <<Str("ab"), NaN>> >>,
               << <<Str("ab"), NaN>>, <<Str("a"), NaN>> >>}}
LongInputs == SeqsOf({"a", "c"}, 0..MaxLongSymptoms)

\* workload "seed": no usable file, so the embedded table; inputs in its words
SeedFiles == {NoFile, BadFile}
SeedInputs == SeqsOf({"fatigue", " Cough", "a", " ", "high fever", "xyz"}, {0, 1, 2})

\* workload "session": a service called repeatedly
SessionFiles ==
    {CsvFile(TableOf(c)) :
        c \in {<< <<Str("a"), NaN>> >>,
               << <<Str("ab"), NaN>>, <<Str("a"), Num("5")>> >>,
               << <<Str("AB "), Str("a")>>, <<Str("a"), Str(" ")>> >>,
               << <<Str("a"), Num("5")>> >>}}
SessionInputs == SeqsOf({"a", " A", "c"}, {0, 1, 2})

\* workload "flu": the one-row table of Flu with the symptoms fever and cough
FluFiles ==
    {CsvFile(DataFrame(Header,
        << <<Str("Flu"), Str("fever"), Str("cough"), Str("about Flu"), Str("rest")>> >>))}
FluInputs == SeqsOf({"fever", "cough", "high fever", "unrelated term"}, {1, 2})

\* workload "sparse": files without the Description or the Treatment column,
\* and files with an empty Description or Treatment cell
SparseFiles ==
    {CsvFile(DataFrame(<<"Disease", "Symptom_1">>,
                       << <<Str("Flu"), Str("a")>> >>)),
     CsvFile(DataFrame(<<"Disease", "Symptom_1", "Treatment">>,
                       << <<Str("Flu"), Str("a"), Str("rest")>> >>)),
     CsvFile(DataFrame(Header,
                       << <<Str("Flu"), Str("a"), NaN, NaN, Str("rest")>> >>)),
     CsvFile(DataFrame(Header,
                       << <<Str("Flu"), Str("a"), NaN, Str("about Flu"), NaN>>,
                          <<Str("Cold"), Str("ab"), NaN, Str("about Cold"), Str("rest")>> >>))}
SparseInputs == SeqsOf({"a", "c"}, {0, 1, 2})

\* workload "duplicates": files of two or three rows whose names may repeat
DuplicateCells == {Str("Flu"), Str("Cold")} \X {Str("a"), Str("ab"), Str("c")}
DuplicateFiles ==
    {CsvFile(DataFrame(Header,
        [i \in 1..Len(c) |->
            <<c[i][1], c[i][2], NaN, Str("about " \o c[i][1].v), Str("rest")>>])) :
        c \in SeqsOf(DuplicateCells, {2, 3})}
DuplicateInputs == SeqsOf({"a", "c"}, {0, 1, 2})

\* workload "blank": one-row files with blank symptom cells in either slot;
\* inputs with empty and whitespace-only symptoms
BlankCells == {Str(" "), Str("a"), NaN} \X {Str(" "), Str("a"), NaN}
BlankFiles == {CsvFile(TableOf(<<c>>)) : c \in BlankCells}
BlankInputs == SeqsOf({" ", "", "a"}, {1, 2})

Workloads == {"tables", "wide", "long", "seed", "session", "flu", "sparse", "blank"}

Files(w) ==
    CASE w = "tables" -> TablesFiles
      [] w = "wide" -> WideFiles
      [] w = "long" -> LongFiles
      [] w = "seed" -> SeedFiles
      [] w = "session" -> SessionFiles
      [] w = "flu" -> FluFiles
      [] w = "sparse" -> SparseFiles
      [] w = "blank" -> BlankFiles
      [] w = "duplicates" -> DuplicateFiles

Inputs(w) ==
    CASE w = "tables" -> TablesInputs
      [] w = "wide" -> WideInputs
      [] w = "long" -> LongInputs
      [] w = "seed" -> SeedInputs
      [] w = "session" -> SessionInputs
      [] w = "flu" -> FluInputs
      [] w = "sparse" -> SparseInputs
      [] w = "blank" -> BlankInputs
      [] w = "duplicates" -> DuplicateInputs

-----------------------------------------------------------------------------
(* The state machine: a service is constructed (Init), then called.        *)

CallBound(w) == IF w = "session" THEN MaxCalls ELSE 1

\* the state right after DiseaseMatchingService()
Init ==
    /\ workload \in Workloads
    /\ dataset_file \in Files(workload)
    /\ disease_data = _load_dataset(dataset_file)
    /\ symptoms = <<>>
    /\ predictions = <<>>
    /\ path = "none"
    /\ status = "idle"
    /\ result = [diseases |-> <<>>]
    /\ calls = 0
    /\ first_call = [symptoms |-> <<>>, diseases |-> <<>>]
    /\ assessed = None
    /\ request = None
    /\ response = None
    /\ tasks = <<>>

\* one call predict_diseases(syms), from its first line to its return
Predict(syms) ==
    LET r == predict_diseases(disease_data, syms, predictions)
    IN  /\ calls < CallBound(workload)
        /\ symptoms' = syms
        /\ predictions' = r.predictions
        /\ path' = r.path
        /\ status' = r.status
        /\ result' = [diseases |-> r.diseases]
        /\ calls' = calls + 1
        /\ first_call' = IF calls = 0
                         THEN [symptoms |-> syms, diseases |-> r.diseases]
                         ELSE first_call
        /\ UNCHANGED <<dataset_file, disease_data, workload>>
        /\ UNCHANGED <<assessed, request, response, tasks>>

Next == \E syms \in Inputs(workload) : Predict(syms)

Spec == Init /\ [][Next]_vars

\* A service built on a file whose rows may carry the same disease name; it
\* answers one call.
InitDuplicates ==
    /\ workload = "duplicates"
    /\ dataset_file \in Files(workload)
    /\ disease_data = _load_dataset(dataset_file)
    /\ symptoms = <<>>
    /\ predictions = <<>>
    /\ path = "none"
    /\ status = "idle"
    /\ result = [diseases |-> <<>>]
    /\ calls = 0
    /\ first_call = [symptoms |-> <<>>, diseases |-> <<>>]
    /\ assessed = None
    /\ request = None
    /\ response = None
    /\ tasks = <<>>

SpecDuplicates == InitDuplicates /\ [][Next]_vars

-----------------------------------------------------------------------------
(* Concurrent calls.  The router keeps one DiseaseMatchingService for the  *)
(* process, and every request calls predict_diseases on it.  The coroutine *)
(* holds no await, so an event loop runs a call from its first line to its *)
(* return; the steps below also let calls take turns between two rows, as  *)
(* calls from several threads would.  A call's symptoms, clean_symptoms    *)
(* and predictions are its locals; the table is the one shared object.     *)

Tasks == 1..MaxTasks

IdleTask ==
    [pc |-> "idle", symptoms |-> <<>>, clean_symptoms |-> <<>>, i |-> 0,
     predictions |-> <<>>, diseases |-> <<>>, overlap |-> FALSE]

ConcurrentFiles == SessionFiles
ConcurrentInputs == SeqsOf({"a", " A", "c"}, {0, 1})

\* the loop body with the symptom cells of row i normalized in the table
NormalizedInPlace(data, i) ==
    [data EXCEPT !.rows[i] =
        [c \in DOMAIN data.rows[i] |->
            IF startswith(data.columns[c], "Symptom_") /\ data.rows[i][c].t = "str"
            THEN Str(strip(lower(data.rows[i][c].v)))
            ELSE data.rows[i][c]]]

\* self.disease_data after the loop body ran on row i: the body reads the
\* row that iterrows() hands it and assigns to locals only.
TableAfterRow(data, i) == data

\* the calls in flight after call t moved to `next`: every other call that is
\* between its first line and its return has now overlapped with another
Others(t, next) ==
    [u \in Tasks |->
        IF u = t THEN next
        ELSE IF tasks[u].pc = "scoring" THEN [tasks[u] EXCEPT !.overlap = TRUE]
        ELSE tasks[u]]

InitConcurrent ==
    /\ workload = "concurrent"
    /\ dataset_file \in ConcurrentFiles
    /\ disease_data = _load_dataset(dataset_file)
    /\ symptoms = <<>>
    /\ predictions = <<>>
    /\ path = "none"
    /\ status = "idle"
    /\ result = [diseases |-> <<>>]
    /\ calls = 0
    /\ first_call = [symptoms |-> <<>>, diseases |-> <<>>]
    /\ assessed = None
    /\ request = None
    /\ response = None
    /\ tasks = [t \in Tasks |-> IdleTask]

\* call t enters predict_diseases(syms): the lines up to the loop
Call(t, syms) ==
    /\ tasks[t].pc \in {"idle", "done"}
    /\ tasks' = Others(t, [pc |-> "scoring", symptoms |-> syms,
                           clean_symptoms |-> CleanSymptoms(syms), i |-> 1,
                           predictions |-> <<>>, diseases |-> <<>>,
                           overlap |-> \E u \in Tasks \ {t} : tasks[u].pc = "scoring"])
    /\ UNCHANGED <<dataset_file, disease_data, symptoms, predictions, workload, path,
                   status, result, calls, first_call, assessed, request, response>>

\* call t runs the loop body on its next row; a row that raises takes the
\* call to the except handler and so to its return
ScoreNextRow(t) ==
    LET task == tasks[t]
        r == ScoreRow(disease_data.columns, disease_data.rows[task.i], task.clean_symptoms)
    IN  /\ task.pc = "scoring"
        /\ task.i <= Len(disease_data.rows)
        /\ tasks' = Others(t,
              IF r.exc
              THEN [task EXCEPT
                      !.pc = "done",
                      !.diseases = ExceptHandler([predictions |-> task.predictions],
                                                 task.symptoms).diseases]
              ELSE [task EXCEPT
                      !.i = task.i + 1,
                      !.predictions = IF r.keep THEN Append(task.predictions, r.entry)
                                      ELSE task.predictions])
        /\ disease_data' = TableAfterRow(disease_data, task.i)
        /\ UNCHANGED <<dataset_file, symptoms, predictions, workload, path, status,
                       result, calls, first_call, assessed, request, response>>

\* call t has left the loop: sort, cut, fallback test and return
Return(t) ==
    LET task == tasks[t]
        top_predictions == TopPredictions(Sorted(task.predictions))
    IN  /\ task.pc = "scoring"
        /\ task.i > Len(disease_data.rows)
        /\ tasks' = Others(t,
              [task EXCEPT
                 !.pc = "done",
                 !.diseases = IF NoGoodMatches(top_predictions)
                              THEN _get_general_recommendations(task.clean_symptoms)
                              ELSE top_predictions])
        /\ UNCHANGED <<dataset_file, disease_data, symptoms, predictions, workload,
                       path, status, result, calls, first_call, assessed, request,
                       response>>

NextConcurrent ==
    \E t \in Tasks :
        \/ \E syms \in ConcurrentInputs : Call(t, syms)
        \/ ScoreNextRow(t)
        \/ Return(t)

SpecConcurrent == InitConcurrent /\ [][NextConcurrent]_vars

-----------------------------------------------------------------------------
(* _assess_severity on its own: every confidence the scorer can hand it, a *)
(* value rounded to two decimals between 0 and 100, that is 0..10000       *)
(* hundredths.                                                             *)

Confidences == 0..10000

InitSeverity ==
    /\ workload = "severity"
    /\ dataset_file = NoFile
    /\ disease_data = _load_dataset(dataset_file)
    /\ symptoms = <<>>
    /\ predictions = <<>>
    /\ path = "none"
    /\ status = "idle"
    /\ result = [diseases |-> <<>>]
    /\ calls = 0
    /\ first_call = [symptoms |-> <<>>, diseases |-> <<>>]
    /\ assessed \in [confidence : Confidences, severity : {""}]
    /\ request = None
    /\ response = None
    /\ tasks = <<>>

\* the call _assess_severity(assessed.confidence)
AssessSeverity ==
    /\ assessed.severity = ""
    /\ assessed' = [assessed EXCEPT !.severity = _assess_severity(assessed.confidence)]
    /\ UNCHANGED <<dataset_file, disease_data, symptoms, predictions, workload, path,
                   status, result, calls, first_call, request, response, tasks>>

NextSeverity == AssessSeverity

SpecSeverity == InitSeverity /\ [][NextSeverity]_vars

-----------------------------------------------------------------------------
(* POST /predict of routers/prediction.py.  The router module builds one   *)
(* DiseaseMatchingService when it is imported, or keeps None when the      *)
(* import of the service failed.  DiseaseResult is a pydantic model of the *)
(* version models/user.py is written for (from_attributes, pattern=): a    *)
(* str field takes a str and rejects a float, so a NaN cell or a numeric   *)
(* cell fails its validation.                                              *)

\* [s.strip().lower() for s in request.symptoms] without the `if s.strip()`
RECURSIVE UnfilteredSymptoms(_)
UnfilteredSymptoms(req) ==
    IF Len(req) = 0 THEN <<>>
    ELSE <<lower(strip(Head(req)))>> \o UnfilteredSymptoms(Tail(req))

\* [s.strip().lower() for s in request.symptoms if s.strip()]
RECURSIVE ValidSymptoms(_)
ValidSymptoms(req) ==
    IF Len(req) = 0 THEN <<>>
    ELSE (IF strip(Head(req)) # "" THEN <<lower(strip(Head(req)))>> ELSE <<>>)
         \o ValidSymptoms(Tail(req))

\* results["diseases"] of the branch taken when disease_matcher is None
SimpleFallback(syms) ==
    << [name |-> Str("General Health Consultation Needed"),
        confidence |-> 6000,
        description |-> Str("Based on your symptoms (" \o join(", ", Prefix(syms, 3))
                            \o "), we recommend consulting a healthcare professional."),
        treatment |-> Str("Schedule an appointment with your doctor for proper evaluation."),
        severity |-> "Medium"] >>

\* DiseaseResult(name=..., description=..., treatment=..., ...): ok when the
\* three str fields are given a str, else the ValidationError
DiseaseResult(disease) ==
    IF disease.name.t = "str" /\ disease.description.t = "str"
       /\ disease.treatment.t = "str"
    THEN [ok |-> TRUE,
          value |-> [name |-> disease.name.v,
                     confidence |-> disease.confidence,
                     description |-> disease.description.v,
                     treatment |-> disease.treatment.v,
                     severity |-> disease.severity]]
    ELSE [ok |-> FALSE, value |-> None]

\* the list comprehension of DiseaseResult over results["diseases"]
RECURSIVE DiseaseResults(_)
DiseaseResults(diseases) ==
    IF Len(diseases) = 0 THEN [ok |-> TRUE, list |-> <<>>]
    ELSE LET first == DiseaseResult(Head(diseases))
             rest == DiseaseResults(Tail(diseases))
         IN  IF first.ok /\ rest.ok
             THEN [ok |-> TRUE, list |-> <<first.value>> \o rest.list]
             ELSE [ok |-> FALSE, list |-> <<>>]

HTTPException(status_code) ==
    [status_code |-> status_code, diseases |-> <<>>, total_symptoms |-> 0]

\* The handler from the point where it holds results: the PredictionResponse
\* of a 200, or the 500 its `except Exception` turns any failure into.
Respond(returned, diseases, syms) ==
    LET built == DiseaseResults(diseases)
    IN  IF returned /\ built.ok
        THEN [status_code |-> 200, diseases |-> built.list, total_symptoms |-> Len(syms)]
        ELSE HTTPException(500)

HandlerRow(i, c) == <<Str(DiseaseNames[i]), c[1], c[2], c[3], c[4]>>
HandlerCells ==
    {Str("a"), Str("ab")} \X {NaN, Num("5")}
        \X {Str("about it"), NaN} \X {Str("rest"), NaN}
HandlerFiles ==
    {NoFile} \cup
    {CsvFile(DataFrame(Header, [i \in 1..Len(c) |-> HandlerRow(i, c[i])])) :
        c \in SeqsOf(HandlerCells, {1, 2})}
Requests == SeqsOf({"a", " A ", "c", " ", ""}, {0, 1, 2})

\* the router module after its import: with the service, or without it when
\* `from services.disease_matcher import ...` raised ImportError
InitHandler ==
    /\ workload \in {"handler", "handler_without_service"}
    /\ dataset_file \in IF workload = "handler" THEN HandlerFiles ELSE {NoFile}
    /\ disease_data = IF workload = "handler" THEN _load_dataset(dataset_file) ELSE None
    /\ symptoms = <<>>
    /\ predictions = <<>>
    /\ path = "none"
    /\ status = "idle"
    /\ result = [diseases |-> <<>>]
    /\ calls = 0
    /\ first_call = [symptoms |-> <<>>, diseases |-> <<>>]
    /\ assessed = None
    /\ request = None
    /\ response = None
    /\ tasks = <<>>

\* one POST /predict with the body {"symptoms": req}, from the handler's
\* first line to the response
PostPredict(req) ==
    /\ request = None
    /\ \E syms \in {ValidSymptoms(req)} :
        \E r \in {predict_diseases(disease_data, syms, predictions)} :
            /\ request' = [symptoms |-> req]
            /\ IF Len(req) = 0 \/ Len(syms) = 0
               THEN /\ response' = HTTPException(400)
                    /\ UNCHANGED <<symptoms, predictions, path, status, result, calls,
                                   first_call>>
               ELSE IF workload = "handler"
               THEN /\ response' = Respond(r.status = "returned", r.diseases, syms)
                    /\ symptoms' = syms
                    /\ predictions' = r.predictions
                    /\ path' = r.path
                    /\ status' = r.status
                    /\ result' = [diseases |-> r.diseases]
                    /\ calls' = calls + 1
                    /\ first_call' = [symptoms |-> syms, diseases |-> r.diseases]
               ELSE /\ response' = Respond(TRUE, SimpleFallback(syms), syms)
                    /\ UNCHANGED <<symptoms, predictions, path, status, result, calls,
                                   first_call>>
            /\ UNCHANGED <<dataset_file, disease_data, workload, assessed, tasks>>

NextHandler == \E req \in Requests : PostPredict(req)

SpecHandler == InitHandler /\ [][NextHandler]_vars

-----------------------------------------------------------------------------
(* Properties.                                                             *)

Range(seq) == {seq[i] : i \in 1..Len(seq)}

Returned == status = "returned"

\* the returned list is the pair of general recommendations
FallbackReturned ==
    /\ Len(result.diseases) = 2
    /\ result.diseases[1].name = Str("General Health Consultation")
    /\ result.diseases[2].name = Str("Symptomatic Care")

\* the candidate list is empty or its highest confidence is below 20
NoCandidateAbove20 == \A i \in 1..Len(predictions) : predictions[i].confidence < 2000

\* C1: every returned entry, ranked or fallback, has the severity that the
\* thresholds (High from 70, Medium from 40, else Low) give its confidence.
C1_SeverityFollowsConfidence ==
    Returned =>
        \A i \in 1..Len(result.diseases) :
            result.diseases[i].severity = _assess_severity(result.diseases[i].confidence)

\* C2: whatever the table (a non-text symptom cell, no Disease column) and
\* the input, the call does not raise and returns a non-empty diseases list.
C2_NeverRaisesNeverEmpty ==
    /\ status # "raised"
    /\ Returned => Len(result.diseases) > 0

\* C2 witness: a call returned the pair after a numeric symptom cell raised
C2_Witness ==
    /\ Returned
    /\ path = "exception"
    /\ ColumnIndex(disease_data.columns, "Disease") # 0
    /\ \E r \in 1..Len(disease_data.rows) :
           \E c \in 1..Len(disease_data.columns) : disease_data.rows[r][c].t = "num"
    /\ Len(result.diseases) = 2

\* C3 as claimed: the fallback pair is returned exactly when the candidate
\* list is empty or its top confidence is below 20, and then holds no candidate.
C3_FallbackIffNoGoodCandidate ==
    Returned =>
        /\ FallbackReturned <=> NoCandidateAbove20
        /\ FallbackReturned =>
               \A i \in 1..2 : result.diseases[i] \notin Range(predictions)

\* C3 amended: when scoring raised no exception the fallback pair is returned
\* exactly when the candidate list is empty or its top confidence is below 20
\* (a top confidence of exactly 20 keeps the ranked list); when scoring raised,
\* the pair is returned whatever was scored; the pair never holds a candidate.
C3_FallbackIffNoGoodCandidateUnlessRaised ==
    Returned =>
        /\ path # "exception" => (FallbackReturned <=> NoCandidateAbove20)
        /\ path = "exception" => FallbackReturned
        /\ FallbackReturned =>
               \A i \in 1..2 : result.diseases[i] \notin Range(predictions)

\* C3 witness: a ranked list whose top confidence is exactly 20
C3_Witness ==
    /\ Returned
    /\ path = "ranked"
    /\ ~FallbackReturned
    /\ result.diseases[1].confidence = 2000

\* C4: on a non-empty table the empty input gives exactly General Health
\* Consultation at 60.0 then Symptomatic Care at 40.0, no matching symptoms.
C4_EmptyInputGivesFallbackPair ==
    (Returned /\ symptoms = <<>> /\ Len(disease_data.rows) > 0) =>
        /\ Len(result.diseases) = 2
        /\ result.diseases[1].name = Str("General Health Consultation")
        /\ result.diseases[1].confidence = 6000
        /\ result.diseases[1].matching_symptoms = <<>>
        /\ result.diseases[2].name = Str("Symptomatic Care")
        /\ result.diseases[2].confidence = 4000
        /\ result.diseases[2].matching_symptoms = <<>>

\* C4 witness: the empty input was scored against a table with rows
C4_Witness ==
    /\ Returned
    /\ symptoms = <<>>
    /\ Len(disease_data.rows) > 1
    /\ path = "low_confidence"

\* C5: every returned confidence lies between 0 and 100.
C5_ConfidenceInRange ==
    Returned =>
        \A i \in 1..Len(result.diseases) :
            /\ result.diseases[i].confidence >= 0
            /\ result.diseases[i].confidence <= 10000

\* C5 witness: a ranked list with a candidate at 100 and one strictly between
C5_Witness ==
    /\ Returned
    /\ path = "ranked"
    /\ Len(symptoms) > 1
    /\ \E i \in 1..Len(result.diseases) : result.diseases[i].confidence = 10000
    /\ \E i \in 1..Len(result.diseases) :
           result.diseases[i].confidence \notin {0, 7000, 10000}

\* C6: a list that differs from the first call's list only in letter case and
\* in outer whitespace gets the same diseases as the first call, on every path.
C6_CaseAndWhitespaceInsensitive ==
    (Returned /\ CleanSymptoms(symptoms) = CleanSymptoms(first_call.symptoms)) =>
        result.diseases = first_call.diseases

\* C7 as claimed: every matching symptom is an element of the list as passed.
C7_MatchingSymptomsAmongPassed ==
    Returned =>
        \A i \in 1..Len(result.diseases) :
            Range(result.diseases[i].matching_symptoms) \subseteq Range(symptoms)

\* C7 amended: every matching symptom is an element of the passed list after
\* normalization (trimmed, lower-cased), and of the list as passed when the
\* pair is returned after an exception.
C7_MatchingSymptomsAmongNormalized ==
    Returned =>
        \A i \in 1..Len(result.diseases) :
            Range(result.diseases[i].matching_symptoms) \subseteq
                (IF path = "exception" THEN Range(symptoms)
                 ELSE Range(CleanSymptoms(symptoms)))

\* C7 witness: a ranked entry matched a symptom passed in another spelling
C7_Witness ==
    /\ Returned
    /\ path = "ranked"
    /\ \E i \in 1..Len(result.diseases) :
           \E m \in Range(result.diseases[i].matching_symptoms) :
               m \notin Range(symptoms)

\* C8: at most 5 entries are returned, and exactly 2 when the fallback pair
\* replaced the ranked list.
C8_AtMostFiveOrTwo ==
    Returned =>
        /\ Len(result.diseases) <= 5
        /\ path # "ranked" => Len(result.diseases) = 2

\* C8 witness: more than 5 candidates were scored and 5 were returned
C8_Witness ==
    /\ Returned
    /\ path = "ranked"
    /\ Len(predictions) > 5
    /\ Len(result.diseases) = 5

\* C9: along a ranked list the confidence never increases.
C9_RankedNonIncreasing ==
    (Returned /\ path = "ranked") =>
        \A i \in 1..(Len(result.diseases) - 1) :
            result.diseases[i].confidence >= result.diseases[i + 1].confidence

\* C9 witness: the candidates were scored in increasing order and returned
\* in decreasing order
C9_Witness ==
    /\ Returned
    /\ path = "ranked"
    /\ Len(predictions) > 1
    /\ predictions[1].confidence < predictions[2].confidence
    /\ result.diseases[1].confidence > result.diseases[2].confidence

\* C10: a call with the list of the service's first call returns the diseases
\* of the first call, whatever calls came between.
C10_SameListSameDiseases ==
    (Returned /\ symptoms = first_call.symptoms) =>
        result.diseases = first_call.diseases

\* C10 witness: a second call repeated the first list and got a ranked list
C10_Witness ==
    /\ Returned
    /\ calls > 1
    /\ symptoms = first_call.symptoms
    /\ path = "ranked"
    /\ Len(predictions) > 0

\* C11: predict_diseases never modifies the loaded table.  Whatever calls
\* have run or are running, and however their steps took turns, the table is
\* the table the constructor produced, and every call that has returned
\* returned the diseases it returns when it runs alone on that table.
C11_TableUnchangedCallsIndependent ==
    /\ disease_data = _load_dataset(dataset_file)
    /\ \A t \in DOMAIN tasks :
          tasks[t].pc = "done"
             => tasks[t].diseases =
                    predict_diseases(_load_dataset(dataset_file),
                                     tasks[t].symptoms, <<>>).diseases

\* a call has returned a list ranked against the row order although another
\* call took steps while it was scoring, and the table holds a cell that
\* normalization would change
C11_Witness ==
    \E t \in DOMAIN tasks :
        /\ tasks[t].pc = "done"
        /\ tasks[t].overlap
        /\ Len(tasks[t].diseases) = 2
        /\ tasks[t].diseases[1].name = Str(DiseaseNames[2])
        /\ tasks[t].diseases[2].name = Str(DiseaseNames[1])
        /\ \E u \in DOMAIN tasks :
              /\ u # t
              /\ tasks[u].pc = "scoring"
              /\ tasks[u].i = 2
              /\ tasks[u].symptoms # tasks[t].symptoms
        /\ disease_data.rows[1][2] = Str("AB ")

\* C12: the dataset loader never fails outward and always leaves a non-empty
\* table: a service that was constructed holds a table (never None) with at
\* least one row, whether the file was missing, unreadable, or parsed, also
\* when it parsed to zero data rows.
C12_LoaderLeavesNonEmptyTable ==
    /\ disease_data # None
    /\ disease_data = _load_dataset(dataset_file)
    /\ Len(disease_data.rows) > 0

\* C13: the severity of a confidence is High exactly when the confidence is
\* at least 70, Medium exactly when it is at least 40 and below 70, and Low
\* exactly when it is below 40; so 70.00 is High, 69.99 and 40.00 are Medium
\* and 39.99 is Low.
C13_SeverityThresholds ==
    (workload = "severity" /\ assessed.severity # "")
        => /\ assessed.severity \in {"High", "Medium", "Low"}
           /\ assessed.severity = "High" <=> assessed.confidence >= 7000
           /\ assessed.severity = "Medium"
                 <=> (assessed.confidence >= 4000 /\ assessed.confidence < 7000)
           /\ assessed.severity = "Low" <=> assessed.confidence < 4000
           /\ assessed.confidence = 7000 => assessed.severity = "High"
           /\ assessed.confidence = 6999 => assessed.severity = "Medium"
           /\ assessed.confidence = 4000 => assessed.severity = "Medium"
           /\ assessed.confidence = 3999 => assessed.severity = "Low"

\* 69.99 has been assessed, as Medium
C13_Witness ==
    /\ workload = "severity"
    /\ assessed.confidence = 6999
    /\ assessed.severity = "Medium"

\* the latest request held no symptom, or only symptoms that are blank once
\* trimmed
BlankRequest ==
    /\ request # None
    /\ \A i \in 1..Len(request.symptoms) : strip(request.symptoms[i]) = ""

\* C14: POST /predict answers 400 and does not call the matcher when the
\* symptom list is empty or every symptom in it is blank after trimming.
C14_BlankRequestRejected ==
    BlankRequest
        => /\ response.status_code = 400
           /\ calls = 0
           /\ status = "idle"
           /\ result = [diseases |-> <<>>]

\* a request of two blank symptoms was answered 400 by a handler that has
\* the service
C14_Witness ==
    /\ workload = "handler"
    /\ request = [symptoms |-> <<" ", "">>]
    /\ response.status_code = 400
    /\ calls = 0

\* the latest request held at least one symptom that is not blank
NonBlankRequest ==
    /\ request # None
    /\ \E i \in 1..Len(request.symptoms) : strip(request.symptoms[i]) # ""

\* C15: every request with at least one non-blank symptom is answered 200
\* with at least one disease, each with a name, a confidence and a
\* description; whatever the matcher returned (a ranked list, either
\* fallback, a row whose Description or Treatment cell is empty), the answer
\* is not a 500.
C15_NonBlankRequestAnswered200 ==
    NonBlankRequest
        => /\ response.status_code = 200
           /\ Len(response.diseases) >= 1
           /\ \A i \in 1..Len(response.diseases) :
                 /\ response.diseases[i].name \in STRING
                 /\ response.diseases[i].confidence \in 0..10000
                 /\ response.diseases[i].description \in STRING

\* the latest call scored every row of the table (no row raised)
Scored == Returned /\ path # "exception"

\* the symptom set predict_diseases builds for row i of the table
SymptomsOfRow(i) ==
    DiseaseSymptoms(disease_data.columns, disease_data.rows[i], 1).list

\* the name predict_diseases reads from row i
NameOfRow(i) == disease_data.rows[i][ColumnIndex(disease_data.columns, "Disease")]

\* C16: exact-match dominance.  A user symptom that equals some symptom of
\* the disease, after normalization, counts as an exact match (1.0) whatever
\* slot that symptom is in; it counts as a partial match (0.7) only when no
\* symptom of the disease equals it and some symptom contains it or is
\* contained in it.  So a one-symptom input that equals a symptom of a row
\* scores that row 100.
C16_ExactMatchDominates ==
    Scored =>
        \A i \in 1..Len(disease_data.rows) : \A k \in 1..Len(symptoms) :
            LET u == strip(lower(symptoms[k]))
                ds == SymptomsOfRow(i)
                kind == FirstMatch(u, ds)
            IN  /\ u \in Range(ds) => kind = "exact"
                /\ kind = "partial"
                      <=> /\ u \notin Range(ds)
                          /\ \E j \in 1..Len(ds) : IsIn(u, ds[j]) \/ IsIn(ds[j], u)
                /\ (Len(symptoms) = 1 /\ u \in Range(ds))
                      => \E p \in Range(predictions) :
                            p.name = NameOfRow(i) /\ p.confidence = 10000

\* the positions of the latest input whose symptom was scored `kind` against
\* row i: a position is counted once, whatever the number of slots it matches
ScoredAs(i, kind) ==
    {k \in 1..Len(symptoms) :
        FirstMatch(strip(lower(symptoms[k])), SymptomsOfRow(i)) = kind}

\* c is 100 * (E + 0.7 * P) / |Su| rounded to two decimals, in hundredths
IsRoundedScore(c, E, P, n) ==
    /\ 2 * c * n >= 2 * (10 * E + 7 * P) * 1000 - n
    /\ 2 * c * n <= 2 * (10 * E + 7 * P) * 1000 + n

\* C17: for a non-empty input, the confidence of every row is
\* 100 * (E + 0.7 * P) / |Su| rounded to two decimals, E the number of user
\* symptoms scored as exact and P the number scored as substring matches,
\* each user symptom counted once; a row is a candidate exactly when that
\* value is positive.  On the table of the one row Flu (fever, cough):
\* ['fever', 'cough'] gives 100.0, ['high fever'] gives 70.0 and
\* ['unrelated term'] gives no candidate and the fallback pair.
C17_ConfidenceIsWeightedShare ==
    (Scored /\ Len(symptoms) > 0) =>
        /\ \A i \in 1..Len(disease_data.rows) :
              LET E == Cardinality(ScoredAs(i, "exact"))
                  P == Cardinality(ScoredAs(i, "partial"))
                  entries == {k \in 1..Len(predictions) :
                                 predictions[k].name = NameOfRow(i)}
              IN  /\ E + P <= Len(symptoms)
                  /\ IF E + P > 0
                     THEN /\ Cardinality(entries) = 1
                          /\ \A k \in entries :
                                IsRoundedScore(predictions[k].confidence, E, P,
                                               Len(symptoms))
                     ELSE entries = {}
        /\ workload = "flu" =>
              /\ symptoms = <<"fever", "cough">>
                    => /\ Len(result.diseases) = 1
                       /\ result.diseases[1].confidence = 10000
              /\ symptoms = <<"high fever">>
                    => /\ Len(result.diseases) = 1
                       /\ result.diseases[1].confidence = 7000
              /\ symptoms = <<"unrelated term">>
                    => /\ predictions = <<>>
                       /\ FallbackReturned

\* ['high fever'] was scored 70.0 against Flu (fever, cough)
C17_Witness ==
    /\ workload = "flu"
    /\ symptoms = <<"high fever">>
    /\ path = "ranked"
    /\ result.diseases[1].name = Str("Flu")
    /\ result.diseases[1].confidence = 7000

\* the symptom cell in column c of row i is empty or holds only whitespace
BlankSlot(i, c) ==
    \/ disease_data.rows[i][c].t = "nan"
    \/ disease_data.rows[i][c].t = "str" /\ strip(disease_data.rows[i][c].v) = ""

SymptomColumns ==
    {c \in 1..Len(disease_data.columns) : startswith(disease_data.columns[c], "Symptom_")}

\* the symptoms of row i that come from slots that are not blank
NonBlankSymptomsOfRow(i) == SelectSeq(SymptomsOfRow(i), LAMBDA d : d # "")

\* C18: an empty or blank symptom slot is not part of the symptom set of its
\* disease.  It produces no exact and no substring match, so every user
\* symptom is scored against a row as it is scored against the row's slots
\* that are not blank, and a row whose slots are all empty or blank scores 0
\* and is not a candidate.
C18_BlankSlotNeverMatches ==
    Scored =>
        \A i \in 1..Len(disease_data.rows) :
            /\ \A k \in 1..Len(symptoms) :
                  FirstMatch(strip(lower(symptoms[k])), SymptomsOfRow(i))
                      = FirstMatch(strip(lower(symptoms[k])), NonBlankSymptomsOfRow(i))
            /\ (\A c \in SymptomColumns : BlankSlot(i, c))
                  => \A k \in 1..Len(predictions) : predictions[k].name # NameOfRow(i)

\* u satisfies the exact or the substring rule against some symptom of ds
SatisfiesRule(u, ds) ==
    \E j \in 1..Len(ds) : u = ds[j] \/ IsIn(u, ds[j]) \/ IsIn(ds[j], u)

\* seq holds the elements of set, each once, in the order of their first
\* occurrence in `order`
RECURSIVE FirstOccurrences(_, _)
FirstOccurrences(order, set) ==
    IF Len(order) = 0 THEN <<>>
    ELSE IF Head(order) \in set
    THEN <<Head(order)>> \o FirstOccurrences(Tail(order), set \ {Head(order)})
    ELSE FirstOccurrences(Tail(order), set)

\* C19: the matching_symptoms of every kept candidate are the user symptoms
\* that satisfy the exact or the substring rule against its disease, in the
\* order of the input, none of them listed twice, also when the input holds
\* the same symptom more than once.
C19_MatchingSymptomsOnceEach ==
    Scored =>
        \A k \in 1..Len(predictions) :
            \A i \in 1..Len(disease_data.rows) :
                predictions[k].name = NameOfRow(i) =>
                    LET clean == CleanSymptoms(symptoms)
                        matching == {u \in Range(clean) : SatisfiesRule(u, SymptomsOfRow(i))}
                    IN  predictions[k].matching_symptoms
                            = FirstOccurrences(clean, matching)

\* the row of the table that the entry `disease` was scored from
RowOf(disease) ==
    CHOOSE i \in 1..Len(disease_data.rows) : NameOfRow(i) = disease.name

\* C20: candidates of equal confidence stand in the returned ranked list in
\* the order of their rows in the table: the descending sort neither
\* reverses nor reorders ties.
C20_TiesInTableOrder ==
    (Returned /\ path = "ranked") =>
        \A a, b \in 1..Len(result.diseases) :
            (a < b /\ result.diseases[a].confidence = result.diseases[b].confidence)
                => RowOf(result.diseases[a]) < RowOf(result.diseases[b])

\* a ranked list was returned in which two candidates tie and in which the
\* sort moved a candidate in front of a candidate of an earlier row
C20_Witness ==
    /\ Returned
    /\ path = "ranked"
    /\ \E a, b \in 1..Len(result.diseases) :
          /\ a < b
          /\ result.diseases[a].confidence = result.diseases[b].confidence
    /\ \E c, d \in 1..Len(result.diseases) :
          /\ c < d
          /\ result.diseases[c].confidence > result.diseases[d].confidence
          /\ RowOf(result.diseases[c]) > RowOf(result.diseases[d])

\* the matching_symptoms `listed` are the first k symptoms of the input, each
\* up to letter case and outer whitespace, and fewer when the input is shorter
FirstOfInput(listed, k) ==
    CleanSymptoms(listed) = Prefix(CleanSymptoms(symptoms), k)

C22_ExceptionGivesPairOnly ==
    (status # "idle" /\ path = "exception") =>
        /\ Returned
        /\ Len(result.diseases) = 2
        /\ FallbackReturned
        /\ \A i \in 1..Len(result.diseases) : \A k \in 1..Len(predictions) :
              /\ result.diseases[i] # predictions[k]
              /\ result.diseases[i].name # predictions[k].name

\* a row raised after an earlier row had been scored at confidence 100
C22_Witness ==
    /\ Returned
    /\ path = "exception"
    /\ Len(predictions) > 0
    /\ predictions[1].confidence = 10000
    /\ predictions[1].name = NameOfRow(1)

\* no symptom of the latest input satisfies the exact or the substring rule
\* against a symptom of row i
NothingMatches(i) ==
    \A k \in 1..Len(symptoms) :
        ~SatisfiesRule(strip(lower(symptoms[k])), SymptomsOfRow(i))

\* C23: no entry of a ranked result has confidence 0: a disease none of
\* whose symptoms matches a user symptom is left out of the candidate list,
\* not ranked last.
C23_NoZeroConfidenceRanked ==
    (Returned /\ path = "ranked") =>
        /\ \A k \in 1..Len(result.diseases) : result.diseases[k].confidence > 0
        /\ \A k \in 1..Len(predictions) : predictions[k].confidence > 0
        /\ \A i \in 1..Len(disease_data.rows) :
              NothingMatches(i) =>
                  /\ \A k \in 1..Len(result.diseases) :
                        result.diseases[k].name # NameOfRow(i)
                  /\ \A k \in 1..Len(predictions) :
                        predictions[k].name # NameOfRow(i)

\* a ranked list was returned from a table with a row that nothing matches
C23_Witness ==
    /\ Returned
    /\ path = "ranked"
    /\ Len(result.diseases) = 1
    /\ Len(disease_data.rows) = 2
    /\ NothingMatches(2)
    /\ Len(SymptomsOfRow(2)) > 0

\* the text of column `name` in row i, or `default` when the table has no
\* such column or the cell of the row is empty
TextOrDefault(i, name, default) ==
    LET c == ColumnIndex(disease_data.columns, name)
    IN  IF c = 0 THEN Str(default)
        ELSE IF disease_data.rows[i][c].t = "nan" THEN Str(default)
        ELSE disease_data.rows[i][c]

\* C24: an entry of a disease record without description (without
\* treatment), because the table lacks the column or because the cell of the
\* row is empty, carries 'No description available' ('Consult healthcare
\* professional') in that field.
C24_DefaultsForAbsentText ==
    Scored =>
        \A k \in 1..Len(predictions) : \A i \in 1..Len(disease_data.rows) :
            predictions[k].name = NameOfRow(i) =>
                /\ predictions[k].description
                      = TextOrDefault(i, "Description", "No description available")
                /\ predictions[k].treatment
                      = TextOrDefault(i, "Treatment", "Consult healthcare professional")

\* the names of the rows of the table, in row order
NamesOfRows == [i \in 1..Len(disease_data.rows) |-> NameOfRow(i)]

\* the cell is a text that is not blank
IsText(cell) == cell.t = "str" /\ strip(cell.v) # ""

\* C25: when the dataset path does not exist or reading it raises, the
\* loaded table is the embedded seed table: 12 rows, from 'Common Cold' to
\* 'Depression' in the fixed order, each with exactly 3 symptom slots that
\* are not empty, a description and a treatment.
C25_SeedTableLoaded ==
    (~dataset_file.exists \/ ~dataset_file.parses) =>
        /\ Len(disease_data.rows) = 12
        /\ NamesOfRows =
              <<Str("Common Cold"), Str("Influenza"), Str("Migraine"),
                Str("Food Poisoning"), Str("Allergic Reaction"), Str("Anxiety"),
                Str("Hypertension"), Str("Diabetes"), Str("Asthma"),
                Str("Gastritis"), Str("Insomnia"), Str("Depression")>>
        /\ Cardinality(SymptomColumns) = 3
        /\ \A i \in 1..Len(disease_data.rows) :
              /\ \A c \in SymptomColumns : IsText(disease_data.rows[i][c])
              /\ Len(SymptomsOfRow(i)) = 3
              /\ ColumnIndex(disease_data.columns, "Description") # 0
              /\ IsText(disease_data.rows[i][ColumnIndex(disease_data.columns, "Description")])
              /\ ColumnIndex(disease_data.columns, "Treatment") # 0
              /\ IsText(disease_data.rows[i][ColumnIndex(disease_data.columns, "Treatment")])

\* a service built on a file that read_csv fails on has answered a call from
\* the last row of the seed table
C25_Witness ==
    /\ dataset_file.exists
    /\ ~dataset_file.parses
    /\ Returned
    /\ path = "ranked"
    /\ \E k \in 1..Len(result.diseases) : result.diseases[k].name = Str("Depression")

\* the rows of the table that some symptom of the latest input matches
MatchedRows == {i \in 1..Len(disease_data.rows) : ~NothingMatches(i)}

\* the k-th of them in row order
MatchedRow(k) ==
    CHOOSE i \in MatchedRows : Cardinality({j \in MatchedRows : j <= i}) = k

\* C26: rows that carry the same disease name are scored and returned as
\* separate candidates: every matched row has its own candidate, in row
\* order, whatever the names of the other rows, and the ranked list holds
\* them all (up to the cut at five), so it may hold a name twice.
C26_SameNameRowsKeptApart ==
    Scored =>
        /\ Len(predictions) = Cardinality(MatchedRows)
        /\ \A k \in 1..Len(predictions) :
              /\ predictions[k].name = NameOfRow(MatchedRow(k))
              /\ predictions[k].confidence =
                    _calculate_confidence(CleanSymptoms(symptoms),
                                          SymptomsOfRow(MatchedRow(k)))
        /\ path = "ranked" =>
              Len(result.diseases)
                  = (IF Len(predictions) < 5 THEN Len(predictions) ELSE 5)

\* a ranked list holds the same name twice, at different confidences
C26_Witness ==
    /\ workload = "duplicates"
    /\ Returned
    /\ path = "ranked"
    /\ \E a, b \in 1..Len(result.diseases) :
          /\ a < b
          /\ result.diseases[a].name = result.diseases[b].name
          /\ result.diseases[a].confidence > result.diseases[b].confidence

\* the candidates, by their position in predictions, that the ranked result
\* holds
ReturnedCandidates ==
    {k \in 1..Len(predictions) :
        \E j \in 1..Len(result.diseases) : result.diseases[j] = predictions[k]}

\* C27: the ranked list is the first 5 of the stably sorted candidates: it
\* holds min(5, number of candidates) entries, no candidate left out has a
\* confidence above that of a returned one, and of the candidates tied at
\* the confidence of the cut the earliest in table order are the ones kept.
C27_FirstFiveOfStableSort ==
    (Returned /\ path = "ranked") =>
        /\ Len(result.diseases)
              = (IF Len(predictions) < 5 THEN Len(predictions) ELSE 5)
        /\ Cardinality(ReturnedCandidates) = Len(result.diseases)
        /\ \A out \in (1..Len(predictions)) \ ReturnedCandidates :
              \A in \in ReturnedCandidates :
                  \/ predictions[in].confidence > predictions[out].confidence
                  \/ /\ predictions[in].confidence = predictions[out].confidence
                     /\ in < out

\* more than five candidates were scored, some at the confidence of the cut
\* were left out, and a candidate of a later row was returned for its higher
\* confidence
C27_Witness ==
    /\ Returned
    /\ path = "ranked"
    /\ Len(predictions) > 5
    /\ \E out \in (1..Len(predictions)) \ ReturnedCandidates :
          /\ predictions[out].confidence = result.diseases[5].confidence
          /\ \E in \in ReturnedCandidates :
                in > out /\ predictions[in].confidence > predictions[out].confidence

\* the symptoms of the latest input, normalized, at the positions the scorer
\* counted as exact or as substring matches against row i, in input order
RECURSIVE CountedSymptoms(_, _)
CountedSymptoms(i, k) ==
    IF k > Len(symptoms) THEN <<>>
    ELSE (IF k \in ScoredAs(i, "exact") \cup ScoredAs(i, "partial")
          THEN <<strip(lower(symptoms[k]))>> ELSE <<>>)
         \o CountedSymptoms(i, k + 1)

\* C28: every entry of a ranked result, for an input of n symptoms, has a
\* non-empty matching_symptoms whose length m is the number of user symptoms
\* the scorer counted as exact or substring matches, with
\* 70 * m / n <= confidence <= 100 * m / n up to the rounding to two
\* decimals; the symptoms listed are the symptoms counted.
C28_ListedAreCounted ==
    (Returned /\ path = "ranked") =>
        \A k \in 1..Len(result.diseases) : \A i \in 1..Len(disease_data.rows) :
            result.diseases[k].name = NameOfRow(i) =>
                LET m == Len(result.diseases[k].matching_symptoms)
                    n == Len(symptoms)
                    c == result.diseases[k].confidence
                IN  /\ m >= 1
                    /\ m = Cardinality(ScoredAs(i, "exact"))
                             + Cardinality(ScoredAs(i, "partial"))
                    /\ result.diseases[k].matching_symptoms = CountedSymptoms(i, 1)
                    /\ 2 * c * n >= 2 * 7000 * m - n
                    /\ 2 * c * n <= 2 * 10000 * m + n

\* a ranked entry lists two of three symptoms, one counted as exact and one
\* as a substring match
C28_Witness ==
    /\ Returned
    /\ path = "ranked"
    /\ Len(symptoms) = 3
    /\ \E k \in 1..Len(result.diseases) : \E i \in 1..Len(disease_data.rows) :
          /\ result.diseases[k].name = NameOfRow(i)
          /\ Len(result.diseases[k].matching_symptoms) = 2
          /\ Cardinality(ScoredAs(i, "exact")) = 1
          /\ Cardinality(ScoredAs(i, "partial")) = 1
          /\ result.diseases[k].confidence = 5667

\* the number of elements of seq equal to x
Occurrences(seq, x) == Cardinality({k \in 1..Len(seq) : seq[k] = x})

\* a and b hold the same symptoms the same number of times
IsPermutation(a, b) ==
    /\ Len(a) = Len(b)
    /\ \A x \in Range(a) \cup Range(b) : Occurrences(a, x) = Occurrences(b, x)

\* name, confidence and severity of every entry, in the order of the list
Ranking(diseases) ==
    [k \in 1..Len(diseases) |->
        [name |-> diseases[k].name,
         confidence |-> diseases[k].confidence,
         severity |-> diseases[k].severity]]

\* C29: a permutation of the input list leaves the confidence of every
\* disease unchanged: a call with the symptoms of the first call in any order
\* returns the same names, in the same order, with the same confidences and
\* severities as the first call.
C29_PermutationSameRanking ==
    (Returned /\ IsPermutation(symptoms, first_call.symptoms)) =>
        Ranking(result.diseases) = Ranking(first_call.diseases)

\* a second call passed the two symptoms of the first call in the other
\* order and got a ranked list of two entries
C29_Witness ==
    /\ Returned
    /\ calls = 2
    /\ path = "ranked"
    /\ Len(symptoms) = 2
    /\ symptoms # first_call.symptoms
    /\ IsPermutation(symptoms, first_call.symptoms)
    /\ CleanSymptoms(symptoms)[1] # CleanSymptoms(symptoms)[2]
    /\ Len(result.diseases) = 2

\* the latest input is not empty and each of its symptoms is empty once
\* normalized
BlankInput ==
    /\ Len(symptoms) > 0
    /\ \A k \in 1..Len(symptoms) : strip(lower(symptoms[k])) = ""

\* C30: a user symptom that is empty after normalization is counted as a
\* substring match, worth 0.7, against every disease that has at least one
\* symptom; so a list of such symptoms only gets every such disease as a
\* candidate at confidence 70, and the ranked list, not the fallback pair,
\* when the table has such a disease.
C30_BlankSymptomScores70 ==
    (Scored /\ BlankInput) =>
        /\ \A i \in 1..Len(disease_data.rows) :
              Len(SymptomsOfRow(i)) > 0 =>
                  /\ FirstMatch("", SymptomsOfRow(i)) = "partial"
                  /\ \E k \in 1..Len(predictions) :
                        /\ predictions[k].name = NameOfRow(i)
                        /\ predictions[k].confidence = 7000
        /\ (\E i \in 1..Len(disease_data.rows) : Len(SymptomsOfRow(i)) > 0) =>
              /\ path = "ranked"
              /\ \A k \in 1..Len(result.diseases) :
                    result.diseases[k].confidence = 7000

====
